---- MODULE Spec2Model ----
(***************************************************************************)
(* Model of mgjson/mgjson.py: an MgJSON document (outlines, streams), its  *)
(* operations add_property, add_stream and the json property, and the      *)
(* encoders and codecs they call.                                          *)
(*                                                                         *)
(* Python strings that the code computes on (names, display names, the     *)
(* outputs of str(), timestamp() and encode_number()) are sequences of     *)
(* one-character strings.  Fixed literals of the code ("dataStatic",       *)
(* "hold", ...) are TLA+ strings.  A Python value whose runtime type the   *)
(* code inspects is a record [t, i, s]: its type name, its integer payload *)
(* and its string payload.                                                 *)
(***************************************************************************)
EXTENDS Integers, Sequences, FiniteSets

VARIABLES outlines, streams, op, ret, calls

vars == <<outlines, streams, op, ret, calls>>

(***************************************************************************)
(* Bounds of the model.                                                    *)
(***************************************************************************)
MaxOutlines == 2
MaxStreamLen == 2

(***************************************************************************)
(* Python values.                                                          *)
(***************************************************************************)
PyNone == [t |-> "None", i |-> 0, s |-> <<>>]
PyInt(n) == [t |-> "int", i |-> n, s |-> <<>>]
PyBool(b) == [t |-> "bool", i |-> IF b THEN 1 ELSE 0, s |-> <<>>]
PyStr(str) == [t |-> "str", i |-> 0, s |-> str]
\* a float, given in hundredths: PyFloat(314) is 3.14
PyFloat(hundredths) == [t |-> "float", i |-> hundredths, s |-> <<>>]

\* truth value of a Python object, as "not x" computes it
Truthy(v) ==
    CASE v.t = "None" -> FALSE
      [] v.t = "str" -> v.s # <<>>
      [] OTHER -> v.i # 0

ALLOWED_STATIC_DATATYPES == <<"int", "bool", "str">>

DATATYPES_MAP == [int |-> "number", bool |-> "boolean", str |-> "string"]

\* the fixed legal range; 2147483648 exceeds the integers of the model
\* checker, so the two literals are carried as their decimal text
LEGAL_RANGE == [min |-> "-2147483648", max |-> "2147483648"]

(***************************************************************************)
(* Characters and the builtins str(int), len, str.capitalize.              *)
(*                                                                         *)
(* The alphabet of the model is printable ASCII (without the grave accent, *)
(* which a string of this language cannot hold) and printable Latin-1     *)
(* characters.  str.capitalize works by the Unicode case mappings: on this *)
(* alphabet the lower-case form of a character is one character, and the   *)
(* title-case form is one character except for U+00DF, whose title case is *)
(* the two characters "Ss"; U+00B5 and U+00FF have title-case forms        *)
(* outside Latin-1, written here "U+039C" and "U+0178".  Title and Lower   *)
(* are not defined for a character outside the alphabet.                   *)
(***************************************************************************)
InSeq(x, seq) == \E k \in 1..Len(seq) : seq[k] = x

IndexOf(x, seq) == CHOOSE k \in 1..Len(seq) : seq[k] = x

LowerCase ==
  <<
    "a", "b", "c", "d", "e", "f", "g", "h", "i", "j", "k", "l", "m",
    "n", "o", "p", "q", "r", "s", "t", "u", "v", "w", "x", "y", "z",
    "à", "á", "â", "ã", "ä", "å", "æ", "ç", "è", "é", "ê", "ë", "ì",
    "í", "î", "ï", "ð", "ñ", "ò", "ó", "ô", "õ", "ö", "ø", "ù", "ú",
    "û", "ü", "ý", "þ"
  >>
UpperCase ==
  <<
    "A", "B", "C", "D", "E", "F", "G", "H", "I", "J", "K", "L", "M",
    "N", "O", "P", "Q", "R", "S", "T", "U", "V", "W", "X", "Y", "Z",
    "À", "Á", "Â", "Ã", "Ä", "Å", "Æ", "Ç", "È", "É", "Ê", "Ë", "Ì",
    "Í", "Î", "Ï", "Ð", "Ñ", "Ò", "Ó", "Ô", "Õ", "Ö", "Ø", "Ù", "Ú",
    "Û", "Ü", "Ý", "Þ"
  >>
Uncased ==
  {
    " ", "!", "\"", "#", "$", "%", "&", "'", "(", ")", "*", "+", ",",
    "-", ".", "/", "0", "1", "2", "3", "4", "5", "6", "7", "8", "9",
    ":", ";", "<", "=", ">", "?", "@", "[", "\\", "]", "^", "_",
    "{", "|", "}", "~", "¡", "¢", "£", "¤", "¥", "¦", "§", "¨", "©",
    "ª", "«", "¬", "®", "¯", "°", "±", "²", "³", "´", "¶", "·", "¸",
    "¹", "º", "»", "¼", "½", "¾", "¿", "×", "÷"
  }
\* characters whose title case is not the paired upper-case letter
SpecialCased == {"ß", "µ", "ÿ"}

DigitChars == <<"0","1","2","3","4","5","6","7","8","9">>

IsDigit(c) == InSeq(c, DigitChars)

\* the title-case form of a character, a string of one or two characters
Title(c) ==
    CASE c = "ß" -> <<"S", "s">>
      [] c = "µ" -> <<"U+039C">>
      [] c = "ÿ" -> <<"U+0178">>
      [] InSeq(c, LowerCase) -> <<UpperCase[IndexOf(c, LowerCase)]>>
      [] InSeq(c, UpperCase) \/ c \in Uncased -> <<c>>

\* the lower-case form of a character
Lower(c) ==
    CASE InSeq(c, UpperCase) -> LowerCase[IndexOf(c, UpperCase)]
      [] InSeq(c, LowerCase) \/ c \in Uncased \/ c \in SpecialCased -> c

\* str.capitalize() keeping the characters after the first as they are
capitalizeFirstOnly(str) ==
    IF str = <<>> THEN <<>> ELSE Title(str[1]) \o SubSeq(str, 2, Len(str))

\* str.capitalize(): the first character title-cased, the rest lower-cased
capitalize(str) ==
    IF str = <<>> THEN <<>>
    ELSE Title(str[1]) \o [k \in 1..(Len(str) - 1) |-> Lower(str[k + 1])]

\* the decimal digits of a natural number, most significant first
RECURSIVE NatDigits(_)
NatDigits(n) ==
    IF n < 10 THEN <<DigitChars[n + 1]>>
    ELSE Append(NatDigits(n \div 10), DigitChars[(n % 10) + 1])

\* str(value) of an int
StrInt(v) == IF v < 0 THEN <<"-">> \o NatDigits(-v) ELSE NatDigits(v)

Zeros(n) == [k \in 1..n |-> "0"]

\* zero-pad a digit string on the left to at least the given width
ZFill(str, width) ==
    IF Len(str) >= width THEN str ELSE Zeros(width - Len(str)) \o str

(***************************************************************************)
(* encode_number: f"{number:+020.15f}" of an int.  The sign is always      *)
(* written, the fraction has 15 digits, and zeros are inserted after the   *)
(* sign up to a MINIMUM field width of 20.                                 *)
(***************************************************************************)
ENC_WIDTH == 20
ENC_DECIMALS == 15

encode_number(number) ==
    LET sign == IF number < 0 THEN "-" ELSE "+"
        mag == IF number < 0 THEN -number ELSE number
        body == NatDigits(mag) \o <<".">> \o Zeros(ENC_DECIMALS)
    IN  <<sign>> \o ZFill(body, ENC_WIDTH - 1)

(***************************************************************************)
(* A call either raises or builds an object.                               *)
(***************************************************************************)
Raised == [raised |-> TRUE, obj |-> <<>>]
Built(o) == [raised |-> FALSE, obj |-> o]

(***************************************************************************)
(* timestamp: datetime(1970,1,1) + timedelta(seconds=seconds), formatted   *)
(* '%Y-%m-%dT%H:%M:%S.%f', last three characters dropped, 'Z' appended.    *)
(*                                                                         *)
(* A time offset of n seconds is carried as a pair <<q, r>> of integers    *)
(* with n = q * 86400 + r (r is any integer, so <<0, n>> is n), because    *)
(* the offsets at which the date arithmetic overflows exceed the integers  *)
(* of the model checker.  Offsets are whole seconds.                       *)
(***************************************************************************)
\* timedelta normalises to days, 0 <= seconds < 86400, microseconds, and
\* raises OverflowError for more than 999999999 days
timedelta(seconds) ==
    LET days == seconds[1] + seconds[2] \div 86400
    IN  IF days > 999999999 \/ days < -999999999 THEN Raised
        ELSE Built([days |-> days,
                    seconds |-> seconds[2] % 86400,
                    microseconds |-> 0])

\* the proleptic Gregorian date days after 1970-01-01; the addition raises
\* OverflowError when the year leaves 1..9999
DateOfDays(days) ==
    LET z == days + 719468
        era == z \div 146097
        doe == z - era * 146097
        yoe == (doe - doe \div 1460 + doe \div 36524 - doe \div 146096) \div 365
        doy == doe - (365 * yoe + yoe \div 4 - yoe \div 100)
        mp == (5 * doy + 2) \div 153
        d == doy - (153 * mp + 2) \div 5 + 1
        m == IF mp < 10 THEN mp + 3 ELSE mp - 9
        y == yoe + era * 400 + (IF m <= 2 THEN 1 ELSE 0)
    IN  IF y < 1 \/ y > 9999 THEN Raised
        ELSE Built([year |-> y, month |-> m, day |-> d])

\* %Y is the year without padding (the C library's strftime pads none),
\* the other fields are zero-padded
strftime(date, delta) ==
    NatDigits(date.year) \o <<"-">> \o
    ZFill(NatDigits(date.month), 2) \o <<"-">> \o
    ZFill(NatDigits(date.day), 2) \o <<"T">> \o
    ZFill(NatDigits(delta.seconds \div 3600), 2) \o <<":">> \o
    ZFill(NatDigits((delta.seconds % 3600) \div 60), 2) \o <<":">> \o
    ZFill(NatDigits(delta.seconds % 60), 2) \o <<".">> \o
    ZFill(NatDigits(delta.microseconds), 6)

timestamp(seconds) ==
    LET delta == timedelta(seconds)
    IN  IF delta.raised THEN Raised
        ELSE LET date == DateOfDays(delta.obj.days)
             IN  IF date.raised THEN Raised
                 ELSE LET text == strftime(date.obj, delta.obj)
                      IN  Built(SubSeq(text, 1, Len(text) - 3) \o <<"Z">>)

(***************************************************************************)
(* Constructors.                                                           *)
(***************************************************************************)
\* display_name, or name.capitalize() when display_name is None
DisplayName(name, display_name) ==
    IF display_name.t = "None" THEN capitalize(name) ELSE display_name.s

\* StaticMGJsonData.__init__ with the type check dropped and the type name
\* looked up with a default
StaticMGJsonDataUnchecked(name, value, display_name) ==
    Built([objectType |-> "dataStatic",
           displayName |-> DisplayName(name, display_name),
           dataType |-> [type |-> IF InSeq(value.t, ALLOWED_STATIC_DATATYPES)
                                  THEN DATATYPES_MAP[value.t] ELSE "null"],
           matchName |-> name,
           value |-> value])

\* StaticMGJsonData.__init__: raise("...") of a str is itself a TypeError
StaticMGJsonData(name, value, display_name) ==
    IF ~InSeq(value.t, ALLOWED_STATIC_DATATYPES) THEN Raised
    ELSE Built([objectType |-> "dataStatic",
                displayName |-> DisplayName(name, display_name),
                dataType |-> [type |-> DATATYPES_MAP[value.t]],
                matchName |-> name,
                value |-> value])

\* StaticMGJsonNumber.__init__: digitsInteger is len(str(value))
StaticMGJsonNumber(name, value, display_name) ==
    LET base == StaticMGJsonData(name, value, display_name)
    IN  IF base.raised THEN base
        ELSE Built([base.obj EXCEPT !.dataType =
               [type |-> base.obj.dataType.type,
                numberStringProperties |->
                  [pattern |-> [isSigned |-> TRUE,
                                digitsInteger |-> Len(StrInt(value.i)),
                                digitsDecimal |-> 0],
                   range |-> [occuring |-> [min |-> value.i, max |-> value.i],
                              legal |-> LEGAL_RANGE]]]])

\* StaticMGJsonString.__init__: maxLen is len(value)
StaticMGJsonString(name, value, display_name) ==
    LET base == StaticMGJsonData(name, value, display_name)
    IN  IF base.raised THEN base
        ELSE Built([base.obj EXCEPT !.dataType =
               [type |-> base.obj.dataType.type,
                paddedStringProperties |->
                  [maxLen |-> Len(value.s),
                   maxDigitsInStrLength |-> 2,
                   eventMarkerB |-> FALSE]]])

\* max(stream, key=lambda elem: elem[1]): the first element of largest value
RECURSIVE MaxByValue(_)
MaxByValue(stream) ==
    IF Len(stream) = 1 THEN stream[1]
    ELSE LET best == MaxByValue(SubSeq(stream, 1, Len(stream) - 1))
             last == stream[Len(stream)]
         IN  IF last[2] > best[2] THEN last ELSE best

\* min(stream, key=lambda elem: elem[1]): the first element of smallest value
RECURSIVE MinByValue(_)
MinByValue(stream) ==
    IF Len(stream) = 1 THEN stream[1]
    ELSE LET best == MinByValue(SubSeq(stream, 1, Len(stream) - 1))
             last == stream[Len(stream)]
         IN  IF last[2] < best[2] THEN last ELSE best

HOLD == <<"h", "o", "l", "d">>

\* timestamp(time) of every datapoint of the stream
Timestamps(stream) == [k \in 1..Len(stream) |-> timestamp(stream[k][1])]

\* one of the timestamp calls raises
AnyRaised(times) == \E k \in 1..Len(times) : times[k].raised

\* the outline dict and the data dict of a stream, given its range
StreamObject(name, stream, display_name, interpolation, minval, maxval, times) ==
    [outline |->
       [objectType |-> "dataDynamic",
        displayName |-> DisplayName(name, display_name),
        sampleSetID |-> name,
        dataType |->
          [type |-> "numberString",
           numberStringProperties |->
             [pattern |-> [digitsInteger |-> 3,
                           digitsDecimal |-> 15,
                           isSigned |-> TRUE],
              range |-> [occuring |-> [min |-> minval, max |-> maxval],
                         legal |-> LEGAL_RANGE]],
           paddedStringProperties |->
             [maxLen |-> 0, maxDigitsInStrLength |-> 0, eventMarkerB |-> FALSE]],
        interpolation |-> IF ~Truthy(interpolation) THEN HOLD ELSE interpolation.s,
        hasExpectedFrequecyB |-> FALSE,
        sampleCount |-> Len(stream),
        matchName |-> name],
     data |->
       [sampleSetID |-> name,
        samples |-> [k \in 1..Len(stream) |->
                       [time |-> times[k].obj,
                        value |-> encode_number(stream[k][2])]]]]

\* DynamicMgJSONData.__init__ with the range taken from the ends of the stream
DynamicMgJSONDataEnds(name, stream, display_name, interpolation) ==
    LET times == Timestamps(stream)
    IN  IF stream = <<>> \/ AnyRaised(times) THEN Raised
        ELSE Built(StreamObject(name, stream, display_name, interpolation,
                                stream[1][2], stream[Len(stream)][2], times))

\* DynamicMgJSONData.__init__ with max(..., default) in place of max(...)
DynamicMgJSONDataDefault(name, stream, display_name, interpolation) ==
    LET times == Timestamps(stream)
    IN  IF AnyRaised(times) THEN Raised
        ELSE IF stream = <<>>
        THEN Built(StreamObject(name, stream, display_name, interpolation,
                                0, 0, times))
        ELSE Built(StreamObject(name, stream, display_name, interpolation,
                                MinByValue(stream)[2], MaxByValue(stream)[2],
                                times))

\* DynamicMgJSONData.__init__: max() of an empty stream raises ValueError,
\* and the loop over the datapoints raises when a timestamp call does
DynamicMgJSONData(name, stream, display_name, interpolation) ==
    LET times == Timestamps(stream)
    IN  IF stream = <<>> THEN Raised
        ELSE IF AnyRaised(times) THEN Raised
        ELSE Built(StreamObject(name, stream, display_name, interpolation,
                                MinByValue(stream)[2], MaxByValue(stream)[2],
                                times))

(***************************************************************************)
(* The document envelope.                                                  *)
(***************************************************************************)
create_doc(dynamic) ==
    IF dynamic
    THEN [version |-> "MGJSON2.0.0",
          creator |-> "python",
          dynamicSamplesPresentB |-> TRUE,
          dynamicDataInfo |-> [useTimecodeB |-> FALSE,
                               utcInfo |-> [precisionLength |-> 3, isGMT |-> TRUE]],
          dataOutline |-> <<>>,
          dataDynamicSamples |-> <<>>]
    ELSE [version |-> "MGJSON2.0.0",
          creator |-> "python",
          dynamicSamplesPresentB |-> FALSE,
          dataOutline |-> <<>>]

\* MgJSON.json choosing the envelope by "more than one stream"
jsonOffByOne ==
    LET doc == create_doc(Len(streams) > 1)
    IN  IF Len(streams) > 1
        THEN [doc EXCEPT !.dataOutline = @ \o outlines,
                         !.dataDynamicSamples = @ \o streams]
        ELSE [doc EXCEPT !.dataOutline = @ \o outlines]

\* MgJSON.json: the document that json.dumps renders.  With no stream the
\* loop over self.streams runs zero times and the key is never touched.
json ==
    LET doc == create_doc(Len(streams) > 0)
    IN  IF Len(streams) > 0
        THEN [doc EXCEPT !.dataOutline = @ \o outlines,
                         !.dataDynamicSamples = @ \o streams]
        ELSE [doc EXCEPT !.dataOutline = @ \o outlines]

(***************************************************************************)
(* The inputs of the operations.                                           *)
(***************************************************************************)
Names == {<<"n", "O">>, <<"ß", "É">>}
DisplayNames == {PyNone, PyStr(<<"x", "Y">>)}
PropertyValues ==
    {PyInt(3), PyInt(-12), PyBool(FALSE), PyStr(<<"h", "i">>), PyFloat(314)}
\* (name, display_name, interpolation) of an add_stream call
StreamHeads ==
    {<<(<<"n", "O">>), PyNone, PyNone>>,
     <<(<<"ß", "É">>), PyStr(<<"x", "Y">>),
       PyStr(<<"l", "i", "n", "e", "a", "r">>)>>}
\* [time, value] datapoints: a time offset <<q, r>> and an int value
Samples == {<<(<<0, 0>>), 5>>, <<(<<0, 86461>>), -1000>>}
\* a datapoint at 10000-01-01, one day past the last date a datetime holds
LateSample == <<(<<2932897, 0>>), 5>>
Streams ==
    UNION {[1..n -> Samples] : n \in 0..MaxStreamLen}
      \cup {<<LateSample>>, <<(<<(<<0, 0>>), 5>>), LateSample>>}

(***************************************************************************)
(* The state: the document's two lists, and three history variables: the   *)
(* last call with its arguments (op), what it returned (ret), and the      *)
(* successful add calls in the order they were made (calls).               *)
(***************************************************************************)
NoDoc == [version |-> "none"]
Call(fn, name, value, display_name, stream, interpolation) ==
    [fn |-> fn, name |-> name, value |-> value, display_name |-> display_name,
     stream |-> stream, interpolation |-> interpolation]

ReturnedNone == [kind |-> "None", doc |-> NoDoc]
RaisedError == [kind |-> "raise", doc |-> NoDoc]
Returned(doc) == [kind |-> "doc", doc |-> doc]

\* MgJSON.__init__
Init ==
    /\ outlines = <<>>
    /\ streams = <<>>
    /\ op = Call("__init__", <<>>, PyNone, PyNone, <<>>, PyNone)
    /\ ret = ReturnedNone
    /\ calls = <<>>

\* add_property appending a bare entry before the encoder has checked the value
add_propertyAppendFirst(name, value, display_name) ==
    LET encoder == IF value.t = "int" THEN "StaticMGJsonNumber"
                   ELSE IF value.t = "str" THEN "StaticMGJsonString"
                   ELSE "StaticMGJsonData"
        made == CASE encoder = "StaticMGJsonNumber" ->
                       StaticMGJsonNumber(name, value, display_name)
                  [] encoder = "StaticMGJsonString" ->
                       StaticMGJsonString(name, value, display_name)
                  [] OTHER -> StaticMGJsonData(name, value, display_name)
        this == Call("add_property", name, value, display_name, <<>>, PyNone)
    IN  /\ Len(outlines) < MaxOutlines
        /\ op' = this
        /\ UNCHANGED streams
        /\ IF made.raised
           THEN /\ outlines' = Append(outlines,
                      StaticMGJsonDataUnchecked(name, value, display_name).obj)
                /\ ret' = RaisedError
                /\ UNCHANGED calls
           ELSE /\ outlines' = Append(outlines, made.obj)
                /\ ret' = ReturnedNone
                /\ calls' = Append(calls, this)

\* add_property inserting the new entry at the head of the list
add_propertyPrepend(name, value, display_name) ==
    LET made == CASE value.t = "int" ->
                       StaticMGJsonNumber(name, value, display_name)
                  [] value.t = "str" ->
                       StaticMGJsonString(name, value, display_name)
                  [] OTHER -> StaticMGJsonData(name, value, display_name)
        this == Call("add_property", name, value, display_name, <<>>, PyNone)
    IN  /\ Len(outlines) < MaxOutlines
        /\ op' = this
        /\ UNCHANGED streams
        /\ IF made.raised
           THEN /\ ret' = RaisedError
                /\ UNCHANGED <<outlines, calls>>
           ELSE /\ outlines' = <<made.obj>> \o outlines
                /\ ret' = ReturnedNone
                /\ calls' = Append(calls, this)

\* MgJSON.add_property: the encoder is chosen by type(value), the entry is
\* constructed (which may raise) and only then appended
add_property(name, value, display_name) ==
    LET encoder == IF value.t = "int" THEN "StaticMGJsonNumber"
                   ELSE IF value.t = "str" THEN "StaticMGJsonString"
                   ELSE "StaticMGJsonData"
        made == CASE encoder = "StaticMGJsonNumber" ->
                       StaticMGJsonNumber(name, value, display_name)
                  [] encoder = "StaticMGJsonString" ->
                       StaticMGJsonString(name, value, display_name)
                  [] OTHER -> StaticMGJsonData(name, value, display_name)
        this == Call("add_property", name, value, display_name, <<>>, PyNone)
    IN  /\ Len(outlines) < MaxOutlines
        /\ op' = this
        /\ UNCHANGED streams
        /\ IF made.raised
           THEN /\ ret' = RaisedError
                /\ UNCHANGED <<outlines, calls>>
           ELSE /\ outlines' = Append(outlines, made.obj)
                /\ ret' = ReturnedNone
                /\ calls' = Append(calls, this)

\* add_stream appending the outline but not the sample set
add_streamOutlineOnly(name, stream, display_name, interpolation) ==
    LET made == DynamicMgJSONData(name, stream, display_name, interpolation)
        this == Call("add_stream", name, PyNone, display_name, stream, interpolation)
    IN  /\ Len(outlines) < MaxOutlines
        /\ op' = this
        /\ IF made.raised
           THEN /\ ret' = RaisedError
                /\ UNCHANGED <<outlines, streams, calls>>
           ELSE /\ outlines' = Append(outlines, made.obj.outline)
                /\ UNCHANGED streams
                /\ ret' = ReturnedNone
                /\ calls' = Append(calls, this)

\* MgJSON.add_stream: the stream object is constructed (which may raise),
\* then its outline and its data are appended, one after the other
add_stream(name, stream, display_name, interpolation) ==
    LET made == DynamicMgJSONData(name, stream, display_name, interpolation)
        this == Call("add_stream", name, PyNone, display_name, stream, interpolation)
    IN  /\ Len(outlines) < MaxOutlines
        /\ op' = this
        /\ IF made.raised
           THEN /\ ret' = RaisedError
                /\ UNCHANGED <<outlines, streams, calls>>
           ELSE /\ outlines' = Append(outlines, made.obj.outline)
                /\ streams' = Append(streams, made.obj.data)
                /\ ret' = ReturnedNone
                /\ calls' = Append(calls, this)

\* reading the json property while draining self.streams
ReadJsonDraining ==
    /\ op' = Call("json", <<>>, PyNone, PyNone, <<>>, PyNone)
    /\ ret' = Returned(json)
    /\ streams' = <<>>
    /\ UNCHANGED <<outlines, calls>>

\* reading the json property: the document is built from the two lists and
\* returned; neither list is assigned
ReadJson ==
    /\ op' = Call("json", <<>>, PyNone, PyNone, <<>>, PyNone)
    /\ ret' = Returned(json)
    /\ UNCHANGED <<outlines, streams, calls>>

Next ==
    \/ \E name \in Names, value \in PropertyValues, display_name \in DisplayNames :
         add_property(name, value, display_name)
    \/ \E head \in StreamHeads, stream \in Streams :
         add_stream(head[1], stream, head[2], head[3])
    \/ ReadJson

Spec == Init /\ [][Next]_vars

(***************************************************************************)
(* Vocabulary of the properties.                                           *)
(***************************************************************************)
IsStreamOutline(o) == o.objectType = "dataDynamic"
IsStreamCall(c) == c.fn = "add_stream"
StreamOutlines == SelectSeq(outlines, IsStreamOutline)
StreamCalls == SelectSeq(calls, IsStreamCall)
LastOutline == outlines[Len(outlines)]
LastStream == streams[Len(streams)]
AddSucceeded(fn) == op.fn = fn /\ ret.kind = "None"
Abs(n) == IF n < 0 THEN -n ELSE n

(***************************************************************************)
(* C1 as stated: every stream outline has exactly one sample set in        *)
(* streams whose sampleSetID equals the outline's matchName.               *)
(***************************************************************************)
C1_ExactlyOneSampleSet ==
    \A i \in 1..Len(outlines) :
        IsStreamOutline(outlines[i]) =>
            Cardinality({j \in 1..Len(streams) :
                streams[j].sampleSetID = outlines[i].matchName}) = 1

(***************************************************************************)
(* C1 amended: stream outlines and sample sets correspond by position.     *)
(* The k-th stream outline and the k-th sample set come from the k-th      *)
(* successful add_stream call and carry its name, so neither is ever       *)
(* appended without the other; the sample set is the only one of that      *)
(* sampleSetID when the successful add_stream calls used distinct names.   *)
(***************************************************************************)
C1_PairedByPosition ==
    /\ Len(StreamOutlines) = Len(streams)
    /\ Len(StreamCalls) = Len(streams)
    /\ \A k \in 1..Len(streams) :
          /\ StreamOutlines[k].matchName = streams[k].sampleSetID
          /\ StreamCalls[k].name = streams[k].sampleSetID
          /\ StreamOutlines[k].sampleCount = Len(streams[k].samples)
    /\ (\A j, k \in 1..Len(StreamCalls) :
            j # k => StreamCalls[j].name # StreamCalls[k].name)
       => C1_ExactlyOneSampleSet

\* two add_stream calls of different names have succeeded
C1_Witness ==
    /\ Len(streams) = 2
    /\ Len(StreamOutlines) = 2
    /\ streams[1].sampleSetID # streams[2].sampleSetID

(***************************************************************************)
(* C2: a serialization has dynamicSamplesPresentB = true, dynamicDataInfo  *)
(* and dataDynamicSamples exactly when some add_stream call has succeeded; *)
(* otherwise the flag is false and both keys are absent.                   *)
(***************************************************************************)
C2_EnvelopeShape ==
    op.fn = "json" =>
        LET doc == ret.doc
            keys == {"dynamicDataInfo", "dataDynamicSamples"}
        IN  IF Len(StreamCalls) >= 1
            THEN doc.dynamicSamplesPresentB = TRUE /\ keys \subseteq DOMAIN doc
            ELSE doc.dynamicSamplesPresentB = FALSE /\ keys \cap DOMAIN doc = {}

\* a serialization of a document holding a property and a stream
C2_Witness ==
    /\ op.fn = "json"
    /\ Len(calls) = 2
    /\ Len(StreamCalls) = 1
    /\ ret.doc.dynamicSamplesPresentB = TRUE

(***************************************************************************)
(* C3: reading json leaves outlines and streams as they were, and a        *)
(* second read with no add call in between returns what the first did.     *)
(***************************************************************************)
C3_ReadJsonPure ==
    [][op'.fn = "json" =>
         /\ outlines' = outlines
         /\ streams' = streams
         /\ (op.fn = "json" => ret' = ret)]_vars

\* a serialization of a document holding a stream
C3_Witness ==
    /\ op.fn = "json"
    /\ Len(streams) >= 1
    /\ Len(ret.doc.dataDynamicSamples) = Len(streams)

(***************************************************************************)
(* C4: the serialized dataOutline has one entry per successful add call,   *)
(* in call order, and dataDynamicSamples one sample set per successful     *)
(* add_stream call, in call order; an add keeps every earlier entry of     *)
(* both lists in place.                                                    *)
(***************************************************************************)
C4_InCallOrder ==
    op.fn = "json" =>
        LET doc == ret.doc
        IN  /\ Len(doc.dataOutline) = Len(calls)
            /\ \A k \in 1..Len(calls) :
                  LET e == doc.dataOutline[k]
                  IN  /\ e.matchName = calls[k].name
                      /\ IF IsStreamCall(calls[k])
                         THEN /\ e.objectType = "dataDynamic"
                              /\ e.sampleCount = Len(calls[k].stream)
                         ELSE /\ e.objectType = "dataStatic"
                              /\ e.value = calls[k].value
            /\ "dataDynamicSamples" \in DOMAIN doc =>
                  /\ Len(doc.dataDynamicSamples) = Len(StreamCalls)
                  /\ \A k \in 1..Len(StreamCalls) :
                        LET d == doc.dataDynamicSamples[k]
                        IN  /\ d.sampleSetID = StreamCalls[k].name
                            /\ Len(d.samples) = Len(StreamCalls[k].stream)

C4_EarlierEntriesKept ==
    /\ Len(outlines') >= Len(outlines)
    /\ SubSeq(outlines', 1, Len(outlines)) = outlines
    /\ Len(streams') >= Len(streams)
    /\ SubSeq(streams', 1, Len(streams)) = streams

C4_DeclarationOrder == []C4_InCallOrder /\ [][C4_EarlierEntriesKept]_vars

\* a serialization after add_stream followed by add_property
C4_Witness ==
    /\ op.fn = "json"
    /\ Len(calls) = 2
    /\ calls[1].fn = "add_stream"
    /\ calls[2].fn = "add_property"
    /\ calls[1].name # calls[2].name

(***************************************************************************)
(* C5: add_property with a value that is no int, bool or str raises, and   *)
(* outlines and streams are after the call what they were before it.       *)
(***************************************************************************)
C5_UnsupportedTypeNoMutation ==
    [][(op'.fn = "add_property" /\ op'.value.t \notin {"int", "bool", "str"}) =>
         /\ ret'.kind = "raise"
         /\ outlines' = outlines
         /\ streams' = streams]_vars

\* add_property(name, 3.14) has failed on a document that holds an entry
C5_Witness ==
    /\ op.fn = "add_property"
    /\ op.value = PyFloat(314)
    /\ ret.kind = "raise"
    /\ Len(outlines) = 1

(***************************************************************************)
(* C6: add_stream with an empty sample sequence raises, and neither an     *)
(* outline nor a sample set is appended.                                   *)
(***************************************************************************)
C6_EmptyStreamNoAppend ==
    [][(op'.fn = "add_stream" /\ op'.stream = <<>>) =>
         /\ ret'.kind = "raise"
         /\ outlines' = outlines
         /\ streams' = streams]_vars

\* add_stream(name, []) has failed on a document that holds a stream
C6_Witness ==
    /\ op.fn = "add_stream"
    /\ op.stream = <<>>
    /\ ret.kind = "raise"
    /\ Len(streams) = 1

(***************************************************************************)
(* C7 as stated: every encoded number has exactly 20 characters, starts    *)
(* with '+' or '-', and has exactly 15 digits after the decimal point.     *)
(***************************************************************************)
C7_TwentyCharacters ==
    \A j \in 1..Len(streams) :
        \A k \in 1..Len(streams[j].samples) :
            LET e == streams[j].samples[k].value
            IN  /\ Len(e) = 20
                /\ e[1] \in {"+", "-"}
                /\ e[Len(e) - 15] = "."
                /\ \A i \in (Len(e) - 14)..Len(e) : IsDigit(e[i])

(***************************************************************************)
(* C8 as stated: a static number outline has digitsInteger equal to the    *)
(* number of decimal digits of the value, the sign not counted,            *)
(* digitsDecimal 0, and occuring min = max = value.                        *)
(***************************************************************************)
C8_DigitsWithoutSign ==
    \A i \in 1..Len(outlines) :
        (~IsStreamOutline(outlines[i]) /\ outlines[i].value.t = "int") =>
            LET v == outlines[i].value.i
                props == outlines[i].dataType.numberStringProperties
            IN  /\ props.pattern.digitsInteger = Len(NatDigits(Abs(v)))
                /\ props.pattern.digitsDecimal = 0
                /\ props.range.occuring = [min |-> v, max |-> v]

(***************************************************************************)
(* C9 as stated: without a display name, displayName is the name with its  *)
(* first character upper-cased and every other character unchanged; a      *)
(* supplied display name is used as given.                                 *)
(***************************************************************************)
C9_RestUnchanged ==
    (AddSucceeded("add_property") \/ AddSucceeded("add_stream")) =>
        IF op.display_name.t = "None"
        THEN LET shown == LastOutline.displayName
                 first == Title(op.name[1])
             IN  /\ Len(shown) = Len(first) + Len(op.name) - 1
                 /\ SubSeq(shown, 1, Len(first)) = first
                 /\ \A k \in 2..Len(op.name) :
                       shown[Len(first) + k - 1] = op.name[k]
        ELSE LastOutline.displayName = op.display_name.s

(***************************************************************************)
(* C9 amended: without a display name, displayName is the name with its    *)
(* first character replaced by its title-case form (one character, or the  *)
(* two characters "Ss" for U+00DF) and every other character lower-cased;  *)
(* a supplied display name is used as given.                               *)
(***************************************************************************)
C9_RestLowerCased ==
    (AddSucceeded("add_property") \/ AddSucceeded("add_stream")) =>
        IF op.display_name.t = "None"
        THEN LET shown == LastOutline.displayName
                 first == Title(op.name[1])
             IN  /\ Len(shown) = Len(first) + Len(op.name) - 1
                 /\ SubSeq(shown, 1, Len(first)) = first
                 /\ \A k \in 2..Len(op.name) :
                       shown[Len(first) + k - 1] = Lower(op.name[k])
        ELSE LastOutline.displayName = op.display_name.s

\* add_property without a display name: U+00DF U+00C9 gave "Ss" U+00E9
C9_Witness ==
    /\ AddSucceeded("add_property")
    /\ op.display_name = PyNone
    /\ op.name = <<"ß", "É">>
    /\ LastOutline.displayName = <<"S", "s", "é">>

(***************************************************************************)
(* C10: after a successful add_stream, sampleCount is the number of input  *)
(* samples and of sample-set entries, the k-th entry is the timestamp and  *)
(* the number string of the k-th input pair, and occuring.min and          *)
(* occuring.max are the smallest and the largest input value.              *)
(***************************************************************************)
C10_StreamAgreesWithInput ==
    AddSucceeded("add_stream") =>
        LET input == op.stream
            occ == LastOutline.dataType.numberStringProperties.range.occuring
            values == {input[k][2] : k \in 1..Len(input)}
        IN  /\ input # <<>>
            /\ LastOutline.sampleCount = Len(input)
            /\ Len(LastStream.samples) = Len(input)
            /\ \A k \in 1..Len(input) :
                  /\ LastStream.samples[k].time = timestamp(input[k][1]).obj
                  /\ LastStream.samples[k].value = encode_number(input[k][2])
            /\ occ.min \in values /\ \A v \in values : occ.min <= v
            /\ occ.max \in values /\ \A v \in values : occ.max >= v

\* add_stream of [[86461, -1000], [0, 5]]: the input is not in time order
\* and its smallest value comes first
C10_Witness ==
    /\ AddSucceeded("add_stream")
    /\ op.stream = <<(<<(<<0, 86461>>), -1000>>), (<<(<<0, 0>>), 5>>)>>
    /\ LastOutline.sampleCount = 2
    /\ LastOutline.dataType.numberStringProperties.range.occuring
          = [min |-> -1000, max |-> 5]
    /\ LastStream.samples[1].time =
          <<"1","9","7","0","-","0","1","-","0","2","T",
            "0","0",":","0","1",":","0","1",".","0","0","0","Z">>
    /\ LastStream.samples[2].value =
          <<"+","0","0","5",".","0","0","0","0","0",
            "0","0","0","0","0","0","0","0","0","0">>

====
